---------------------------- MODULE Spec2Model ----------------------------
(***************************************************************************)
(* Model of github.com/advdv/sdulid: a ULID whose last two bytes carry a   *)
(* 16-bit kind tag, its short ("<short>_" + 24 symbols) and long (26       *)
(* symbols) text forms, and the SQL domain that mirrors the suffix.        *)
(*                                                                         *)
(* Bytes are integers 0..255.  Texts and buffers are sequences of bytes    *)
(* (ASCII codes).  A Go slice v of a backing array is the pair (arr, vlen):*)
(* v = arr[1..vlen], cap(v) = Len(arr).                                    *)
(***************************************************************************)
EXTENDS Integers, Sequences, FiniteSets

(***************************************************************************)
(* uint8 arithmetic                                                        *)
(***************************************************************************)
Pow2(n) == << 1, 2, 4, 8, 16, 32, 64, 128, 256 >>[n + 1]

Bytes == 0..255

RECURSIVE BitAndRec(_, _)
BitAndRec(a, b) ==
    IF a = 0 \/ b = 0 THEN 0
    ELSE (IF a % 2 = 1 /\ b % 2 = 1 THEN 1 ELSE 0) + 2 * BitAndRec(a \div 2, b \div 2)

RECURSIVE BitOrRec(_, _)
BitOrRec(a, b) ==
    IF a = 0 THEN b
    ELSE IF b = 0 THEN a
    ELSE (IF a % 2 = 1 \/ b % 2 = 1 THEN 1 ELSE 0) + 2 * BitOrRec(a \div 2, b \div 2)

\* The two operators tabulated over all pairs of bytes.
AndTable == [a \in Bytes |-> [b \in Bytes |-> BitAndRec(a, b)]]
OrTable == [a \in Bytes |-> [b \in Bytes |-> BitOrRec(a, b)]]

\* a & b and a | b on bytes.
BitAnd(a, b) == AndTable[a][b]
BitOr(a, b) == OrTable[a][b]

\* x << n on a byte: the result is truncated to 8 bits.
Shl(x, n) == (x * Pow2(n)) % 256

\* x >> n on an unsigned value.
Shr(x, n) == x \div Pow2(n)

(***************************************************************************)
(* ulid.Encoding and the decode table dec of oklog/ulid/v2                 *)
(***************************************************************************)
\* "0123456789ABCDEFGHJKMNPQRSTVWXYZ"
Encoding ==
    << 48, 49, 50, 51, 52, 53, 54, 55, 56, 57,
       65, 66, 67, 68, 69, 70, 71, 72, 74, 75,
       77, 78, 80, 81, 82, 83, 84, 86, 87, 88, 89, 90 >>

\* Encoding[i] with Go's 0-based index.
Enc(i) == Encoding[i + 1]

\* dec[c]: the 5-bit value of symbol c (either case), 0xFF for any other byte.
DecTable ==
    [c \in Bytes |->
        LET u == IF c >= 97 /\ c <= 122 THEN c - 32 ELSE c
        IN  IF \E i \in 1..32 : Encoding[i] = u
            THEN (CHOOSE i \in 1..32 : Encoding[i] = u) - 1
            ELSE 255]

dec(c) == DecTable[c]

\* Go's 0-based index into a sequence.
At(s, i) == s[i + 1]


(***************************************************************************)
(* Kinds: the type parameter T of ID[T]                                    *)
(***************************************************************************)
\* testID of the test suite: KindNumber math.MaxUint16, "test", "tst".
testID == [KindNumber |-> 65535, KindIdent |-> "test", KindShortIdent |-> <<116, 115, 116>>]

\* Further kinds an embedding application may declare: tag 0x0001 with "usr",
\* tag 0x3142 (ASCII "1B") with "xtst", tag 0x30FF with "ab".
Kinds ==
    << testID,
       [KindNumber |-> 1,     KindIdent |-> "user",  KindShortIdent |-> <<117, 115, 114>>],
       [KindNumber |-> 12610, KindIdent |-> "xtest", KindShortIdent |-> <<120, 116, 115, 116>>],
       [KindNumber |-> 12543, KindIdent |-> "abc",   KindShortIdent |-> <<97, 98>>] >>

KindIds == 1..Len(Kinds)

KindNumber(k) == Kinds[k].KindNumber
KindIdent(k) == Kinds[k].KindIdent
KindShortIdent(k) == Kinds[k].KindShortIdent

\* kind.KindShortIdent() + "_"
Prefix(k) == Append(KindShortIdent(k), 95)

(***************************************************************************)
(* oklog/ulid/v2: sizes and the non-strict parser behind ulid.Parse and    *)
(* ULID.UnmarshalText                                                      *)
(***************************************************************************)
ULIDEncodedSize == 26

ULIDSize == 16

ZeroULID == [i \in 1..ULIDSize |-> 0]

\* The unrolled base32 decode of parse(v, false, id); every operation is uint8.
ulidDecode(v) ==
    LET d(i) == dec(At(v, i))
        Or3(a, b, c) == BitOr(BitOr(a, b), c)
    IN  << BitOr(Shl(d(0), 5), d(1)),
           BitOr(Shl(d(2), 3), Shr(d(3), 2)),
           Or3(Shl(d(3), 6), Shl(d(4), 1), Shr(d(5), 4)),
           BitOr(Shl(d(5), 4), Shr(d(6), 1)),
           Or3(Shl(d(6), 7), Shl(d(7), 2), Shr(d(8), 3)),
           BitOr(Shl(d(8), 5), d(9)),
           BitOr(Shl(d(10), 3), Shr(d(11), 2)),
           Or3(Shl(d(11), 6), Shl(d(12), 1), Shr(d(13), 4)),
           BitOr(Shl(d(13), 4), Shr(d(14), 1)),
           Or3(Shl(d(14), 7), Shl(d(15), 2), Shr(d(16), 3)),
           BitOr(Shl(d(16), 5), d(17)),
           BitOr(Shl(d(18), 3), Shr(d(19), 2)),
           Or3(Shl(d(19), 6), Shl(d(20), 1), Shr(d(21), 4)),
           BitOr(Shl(d(21), 4), Shr(d(22), 1)),
           Or3(Shl(d(22), 7), Shl(d(23), 2), Shr(d(24), 3)),
           BitOr(Shl(d(24), 5), d(25)) >>

\* ULID.UnmarshalText(v) / ulid.Parse(v) on receiver id: length check, overflow
\* check on the first symbol, then the decode; characters are not validated.
ULIDUnmarshalText(id, v) ==
    IF Len(v) # ULIDEncodedSize THEN [id |-> id, err |-> "ErrDataSize"]
    ELSE IF At(v, 0) > 55 THEN [id |-> id, err |-> "ErrOverflow"]
    ELSE [id |-> ulidDecode(v), err |-> "nil"]

(***************************************************************************)
(* sdulid.ID[T]                                                            *)
(***************************************************************************)
\* The little-endian order: b[0] = byte(v), b[1] = byte(v >> 8).
LittleEndianPutUint16(v) == << v % 256, Shr(v, 8) % 256 >>

\* binary.BigEndian.PutUint16(b, v): b[0] = byte(v >> 8), b[1] = byte(v).
BigEndianPutUint16(v) == << Shr(v, 8) % 256, v % 256 >>

\* id.putSuffixBytes(): overwrite id[14:] with the kind number.
putSuffixBytes(id, k) ==
    LET b == BigEndianPutUint16(KindNumber(k))
    IN  [id EXCEPT ![15] = b[1], ![16] = b[2]]

PrefixSize(k) == Len(KindShortIdent(k)) + 1

\* binary.Size(uint16(0))
Uint16Size == 2

EncodedSize(k) == PrefixSize(k) + ULIDEncodedSize - Uint16Size

\* A last symbol cut from the low 5 bits of byte 14, as symbols 1, 9 and 17 are cut.
lastSymbolLow5(b14) == Enc(BitAnd(b14, 31))

\* dst[plen+23]: bits 6..2 of byte 14.
lastSymbol(b14) == Enc(Shr(BitAnd(b14, 124), 2))

\* The 24 symbols MarshalTextTo writes at dst[plen+0 .. plen+23].
marshalSymbols(id) ==
    LET b(i) == At(id, i)
    IN  << Enc(Shr(BitAnd(b(0), 224), 5)),
           Enc(BitAnd(b(0), 31)),
           Enc(Shr(BitAnd(b(1), 248), 3)),
           Enc(BitOr(Shl(BitAnd(b(1), 7), 2), Shr(BitAnd(b(2), 192), 6))),
           Enc(Shr(BitAnd(b(2), 62), 1)),
           Enc(BitOr(Shl(BitAnd(b(2), 1), 4), Shr(BitAnd(b(3), 240), 4))),
           Enc(BitOr(Shl(BitAnd(b(3), 15), 1), Shr(BitAnd(b(4), 128), 7))),
           Enc(Shr(BitAnd(b(4), 124), 2)),
           Enc(BitOr(Shl(BitAnd(b(4), 3), 3), Shr(BitAnd(b(5), 224), 5))),
           Enc(BitAnd(b(5), 31)),
           Enc(Shr(BitAnd(b(6), 248), 3)),
           Enc(BitOr(Shl(BitAnd(b(6), 7), 2), Shr(BitAnd(b(7), 192), 6))),
           Enc(Shr(BitAnd(b(7), 62), 1)),
           Enc(BitOr(Shl(BitAnd(b(7), 1), 4), Shr(BitAnd(b(8), 240), 4))),
           Enc(BitOr(Shl(BitAnd(b(8), 15), 1), Shr(BitAnd(b(9), 128), 7))),
           Enc(Shr(BitAnd(b(9), 124), 2)),
           Enc(BitOr(Shl(BitAnd(b(9), 3), 3), Shr(BitAnd(b(10), 224), 5))),
           Enc(BitAnd(b(10), 31)),
           Enc(Shr(BitAnd(b(11), 248), 3)),
           Enc(BitOr(Shl(BitAnd(b(11), 7), 2), Shr(BitAnd(b(12), 192), 6))),
           Enc(Shr(BitAnd(b(12), 62), 1)),
           Enc(BitOr(Shl(BitAnd(b(12), 1), 4), Shr(BitAnd(b(13), 240), 4))),
           Enc(BitOr(Shl(BitAnd(b(13), 15), 1), Shr(BitAnd(b(14), 128), 7))),
           lastSymbol(b(14)) >>

\* A size check that only rejects buffers that are too small.
MarshalTextToAtLeast(id, dst, k) ==
    IF Len(dst) < EncodedSize(k) THEN [dst |-> dst, err |-> "ErrBufferSize"]
    ELSE [dst |-> Prefix(k) \o marshalSymbols(id)
                    \o SubSeq(dst, EncodedSize(k) + 1, Len(dst)),
          err |-> "nil"]

\* id.MarshalTextTo(dst): the size check, then the prefix and the 24 symbols.
MarshalTextTo(id, dst, k) ==
    IF Len(dst) # EncodedSize(k) THEN [dst |-> dst, err |-> "ErrBufferSize"]
    ELSE [dst |-> Prefix(k) \o marshalSymbols(id), err |-> "nil"]

\* make([]byte, n)
MakeBytes(n) == [i \in 1..n |-> 0]

\* id.MarshalText(): a fresh buffer of EncodedSize bytes handed to MarshalTextTo.
MarshalText(id, k) == MarshalTextTo(id, MakeBytes(EncodedSize(k)), k)

\* bytes.Index(s, sep): the 0-based offset of the first occurrence, -1 if none.
Index(s, sep) ==
    LET hits == { i \in 0..(Len(s) - Len(sep)) :
                    \A j \in 1..Len(sep) : s[i + j] = sep[j] }
    IN  IF hits = {} THEN -1 ELSE CHOOSE i \in hits : \A h \in hits : i <= h

\* bytes.Cut(s, sep): before and after alias s; off is after's offset in s.
Cut(s, sep) ==
    LET i == Index(s, sep)
    IN  IF i >= 0
        THEN [before |-> SubSeq(s, 1, i),
              after  |-> SubSeq(s, i + Len(sep) + 1, Len(s)),
              off    |-> i + Len(sep),
              found  |-> TRUE]
        ELSE [before |-> s, after |-> <<>>, off |-> Len(s), found |-> FALSE]

\* append(after, suffix...) where after = arr[off .. vlen) and cap(after) =
\* Len(arr) - off: with room for both bytes they are written into the backing
\* array right after after's last byte; otherwise a new array is allocated.
AppendSuffix(arr, vlen, suffix) ==
    IF vlen + Len(suffix) <= Len(arr)
    THEN [arr EXCEPT ![vlen + 1] = suffix[1], ![vlen + 2] = suffix[2]]
    ELSE arr

\* A suffix check that looks at the last byte only.
suffixMismatchLast(id, suffix) == At(id, 15) # suffix[2]

\* id.ULID[14] != suffix[0] || id.ULID[15] != suffix[1]
suffixMismatch(id, suffix) == At(id, 14) # suffix[1] \/ At(id, 15) # suffix[2]

\* id.UnmarshalText(v) with v = arr[0:vlen]: the receiver, the error and the
\* caller's backing array after the call.
UnmarshalText(id, arr, vlen, k) ==
    LET v      == SubSeq(arr, 1, vlen)
        suffix == BigEndianPutUint16(KindNumber(k))
        c      == Cut(v, Prefix(k))
    IN  IF ~c.found /\ Len(c.before) = ULIDEncodedSize
        THEN LET r == ULIDUnmarshalText(id, c.before)
             IN  IF r.err # "nil" THEN [id |-> r.id, err |-> r.err, arr |-> arr]
                 ELSE IF suffixMismatch(r.id, suffix)
                 THEN [id |-> r.id, err |-> "ErrInvalidSuffix", arr |-> arr]
                 ELSE [id |-> r.id, err |-> "nil", arr |-> arr]
        ELSE IF ~c.found
        THEN [id |-> id, err |-> "ErrNoPrefix", arr |-> arr]
        ELSE LET r == ULIDUnmarshalText(id, c.after \o suffix)
             IN  [id |-> r.id, err |-> r.err, arr |-> AppendSuffix(arr, vlen, suffix)]

\* fmt.Errorf("failed to parse ulid: %w", err)
WrapParseError(e) ==
    IF e = "ErrDataSize" THEN "failed to parse ulid: ErrDataSize"
    ELSE "failed to parse ulid: ErrOverflow"

\* FromULID[T](s): ulid.Parse into a zero ULID, then putSuffixBytes on success.
FromULID(s, k) ==
    LET r == ULIDUnmarshalText(ZeroULID, s)
    IN  IF r.err # "nil" THEN [id |-> r.id, err |-> WrapParseError(r.err)]
        ELSE [id |-> putSuffixBytes(r.id, k), err |-> "nil"]

\* The decimal digits fmt's %d prints for n >= 0.
RECURSIVE Decimal(_)
Decimal(n) == IF n < 10 THEN <<48 + n>> ELSE Append(Decimal(n \div 10), 48 + (n % 10))

\* DomainSQL[T](): what Sprintf substitutes into the CREATE DOMAIN template.
DomainSQL(k) ==
    [ domain       |-> <<KindIdent(k), "_id">>,
      octet_length |-> Decimal(16),
      get_byte_14  |-> Decimal(Shr(KindNumber(k), 8)),
      get_byte_15  |-> Decimal(BitAndRec(KindNumber(k), 255)) ]

(***************************************************************************)
(* Inputs the callers supply                                               *)
(***************************************************************************)
\* Number of pseudo-random ULIDs among the values ulid.Make() may return.
MaxSeed == 3

\* Largest spare capacity behind the input slice of UnmarshalText.
MaxSpare == 2

\* Largest distance of a MarshalTextTo buffer's length from EncodedSize.
MaxExtra == 1

\* The ULID FromULID yields for "01JBRQS1J5A085FYY2M7ZXWG00" before the suffix
\* is stamped (the test's expected bytes, with the suffix the text carries).
TestULID == << 1, 146, 241, 124, 134, 69, 80, 16, 87, 251, 194, 161, 255, 222, 64, 0 >>

\* The ULID whose only set bit is bit n, counted from the most significant.
OneBit(n) == [i \in 1..ULIDSize |-> IF i - 1 = n \div 8 THEN Pow2(7 - (n % 8)) ELSE 0]

Rand(s) == [i \in 1..ULIDSize |-> (s * 73 + i * 151 + i * i * s * 7) % 256]

\* ulid.Make() is external: any 16 bytes; these are the ones drawn here.
SampleULIDs ==
    { TestULID, ZeroULID, [i \in 1..ULIDSize |-> 255] }
        \cup { OneBit(n) : n \in 0..(8 * ULIDSize - 1) }
        \cup { Rand(s) : s \in 1..MaxSeed }

\* ULID.String(): the standard 26 symbols (the same unrolled groups, plus the
\* two that carry the low 2 bits of byte 14 and byte 15).
ulidMarshalText(id) ==
    marshalSymbols(id) \o
        << Enc(BitOr(Shl(BitAnd(At(id, 14), 3), 3), Shr(BitAnd(At(id, 15), 224), 5))),
           Enc(BitAnd(At(id, 15), 31)) >>

ToLower(t) == [i \in 1..Len(t) |-> IF t[i] >= 65 /\ t[i] <= 90 THEN t[i] + 32 ELSE t[i]]

\* Texts handed to FromULID: standard texts of any ULID (whatever suffix they
\* carry), in either case, "0" (too short) and a text whose first symbol overflows.
ULIDTexts ==
    { ulidMarshalText(u) : u \in SampleULIDs }
        \cup { ToLower(ulidMarshalText(TestULID)), <<48>>,
               [ulidMarshalText(TestULID) EXCEPT ![1] = 56] }

\* Texts handed to id2.UnmarshalText, built from the identifier id of kind k.
UnmarshalInputs(id, k) ==
    LET short == MarshalText(id, k).dst
        long  == ulidMarshalText(id)
        body  == marshalSymbols(id)
        plen  == PrefixSize(k)
    IN  { short, long, body, <<>> }
        \* the same payload marshalled as another kind, short and long
        \cup { MarshalText(putSuffixBytes(id, u), u).dst : u \in KindIds }
        \cup { ulidMarshalText(putSuffixBytes(id, u)) : u \in KindIds }
        \* bytes before the prefix, one symbol too many, one too few
        \cup { <<33>> \o short, Append(short, 48), SubSeq(short, 1, Len(short) - 1) }
        \* lower-case symbols; the prefix twice in a text of the right length
        \cup { Prefix(k) \o ToLower(body),
               Prefix(k) \o Prefix(k) \o SubSeq(body, 1, Len(body) - plen) }
        \* a first symbol above '7'; a letter outside the alphabet
        \cup { [short EXCEPT ![plen + 1] = 56], [long EXCEPT ![1] = 90],
               [long EXCEPT ![11] = 85] }

\* A buffer of n bytes holding '#'.
Filler(n) == [i \in 1..n |-> 35]

\* Lengths of the buffers handed to MarshalTextTo (0 is the nil slice).
BufferLengths(k) == {0} \cup ((EncodedSize(k) - MaxExtra)..(EncodedSize(k) + MaxExtra))

(***************************************************************************)
(* State                                                                   *)
(***************************************************************************)
VARIABLES
    kind,    \* the type parameter T, an index into Kinds
    id1,     \* the identifier the caller holds (Make / FromULID assign it)
    id2,     \* the receiver of UnmarshalText, after the call
    id2pre,  \* the receiver of UnmarshalText, before the call
    arr,     \* the caller's byte array (decode input, encode destination) after the call
    arrpre,  \* the same array before the call
    vlen,    \* length of the slice of arr passed to the call (its capacity is Len(arr))
    op,      \* the call that has just returned, "idle" between calls
    err,     \* the error it returned
    ret      \* the value it returned

vars == << kind, id1, id2, id2pre, arr, arrpre, vlen, op, err, ret >>

NoCall ==
    /\ id2 = ZeroULID /\ id2pre = ZeroULID
    /\ arr = <<>> /\ arrpre = <<>> /\ vlen = 0
    /\ err = "nil" /\ ret = <<>>

\* var id1 sdulid.ID[T]: the zero value, for any kind T.
Init ==
    /\ kind \in KindIds
    /\ id1 = ZeroULID
    /\ op = "idle"
    /\ NoCall

\* id1 = sdulid.Make[T]()
Make ==
    /\ op = "idle"
    /\ \E u \in SampleULIDs :
        LET id == putSuffixBytes(u, kind)
        IN  /\ id1' = id
            /\ ret' = id
    /\ op' = "Make"
    /\ err' = "nil"
    /\ UNCHANGED << kind, id2, id2pre, arr, arrpre, vlen >>

\* id, err := sdulid.FromULID[T](s); id1 is assigned when err is nil.
DoFromULID ==
    /\ op = "idle"
    /\ \E s \in ULIDTexts :
        LET r == FromULID(s, kind)
        IN  /\ ret' = r.id
            /\ err' = r.err
            /\ id1' = IF r.err = "nil" THEN r.id ELSE id1
            /\ arr' = s
            /\ arrpre' = s
            /\ vlen' = Len(s)
    /\ op' = "FromULID"
    /\ UNCHANGED << kind, id2, id2pre >>

\* err := id1.MarshalTextTo(dst)
DoMarshalTextTo ==
    /\ op = "idle"
    /\ \E n \in BufferLengths(kind) :
        LET r == MarshalTextTo(id1, Filler(n), kind)
        IN  /\ arrpre' = Filler(n)
            /\ arr' = r.dst
            /\ vlen' = n
            /\ err' = r.err
    /\ op' = "MarshalTextTo"
    /\ UNCHANGED << kind, id1, id2, id2pre, ret >>

\* dst, err := id1.MarshalText()
DoMarshalText ==
    /\ op = "idle"
    /\ LET r == MarshalText(id1, kind)
       IN  /\ ret' = r.dst
           /\ err' = r.err
    /\ op' = "MarshalText"
    /\ UNCHANGED << kind, id1, id2, id2pre, arr, arrpre, vlen >>

\* err := id2.UnmarshalText(buf[:n]); id2 is a fresh variable or a copy of id1.
DoUnmarshalText ==
    /\ op = "idle"
    /\ \E t \in UnmarshalInputs(id1, kind), spare \in 0..MaxSpare, fresh \in BOOLEAN :
        LET recv == IF fresh THEN ZeroULID ELSE id1
            buf  == t \o Filler(spare)
            r    == UnmarshalText(recv, buf, Len(t), kind)
        IN  /\ id2pre' = recv
            /\ id2' = r.id
            /\ arrpre' = buf
            /\ arr' = r.arr
            /\ vlen' = Len(t)
            /\ err' = r.err
    /\ op' = "UnmarshalText"
    /\ UNCHANGED << kind, id1, ret >>

\* sql := sdulid.DomainSQL[T]()
DoDomainSQL ==
    /\ op = "idle"
    /\ ret' = DomainSQL(kind)
    /\ op' = "DomainSQL"
    /\ err' = "nil"
    /\ UNCHANGED << kind, id1, id2, id2pre, arr, arrpre, vlen >>

\* The caller is done with the call's results; only id1 lives on.
Return ==
    /\ op # "idle"
    /\ op' = "idle"
    /\ id2' = ZeroULID /\ id2pre' = ZeroULID
    /\ arr' = <<>> /\ arrpre' = <<>> /\ vlen' = 0
    /\ err' = "nil" /\ ret' = <<>>
    /\ UNCHANGED << kind, id1 >>

Next ==
    \/ Make
    \/ DoFromULID
    \/ DoMarshalTextTo
    \/ DoMarshalText
    \/ DoUnmarshalText
    \/ DoDomainSQL
    \/ Return

Spec == Init /\ [][Next]_vars

(***************************************************************************)
(* Vocabulary of the properties                                            *)
(***************************************************************************)
\* The slice the last call was given.
Input == SubSeq(arrpre, 1, vlen)

\* Bytes 14 and 15 of id are the big-endian encoding of kind k's number.
HasSuffix(id, k) ==
    /\ id[15] = KindNumber(k) \div 256
    /\ id[16] = KindNumber(k) % 256

\* The input holds kind k's "<short-ident>_" somewhere.
HasPrefix(v, k) ==
    \E i \in 0..(Len(v) - PrefixSize(k)) : SubSeq(v, i + 1, i + PrefixSize(k)) = Prefix(k)

\* The length of every short-form text of kind k.
ShortFormSize(k) == Len(KindShortIdent(k)) + 1 + 24

\* Bit n (0 is the most significant) of the 130-bit string made of two zero
\* bits followed by the 128 bits of id.
StdBit(id, n) ==
    IF n < 2 THEN 0 ELSE (id[((n - 2) \div 8) + 1] \div Pow2(7 - ((n - 2) % 8))) % 2

\* Symbol j (0..25) of the standard text of id: the j-th group of 5 bits.
StdSymbol(id, j) ==
    Enc(16 * StdBit(id, 5 * j) + 8 * StdBit(id, 5 * j + 1) + 4 * StdBit(id, 5 * j + 2)
            + 2 * StdBit(id, 5 * j + 3) + StdBit(id, 5 * j + 4))

\* The identifiers that differ from id at most in the low 2 bits of byte 14
\* and in byte 15.
SameHigh118(id) ==
    { [id EXCEPT ![15] = (id[15] \div 4) * 4 + lo, ![16] = b15] :
        lo \in 0..3, b15 \in {0, 1, 128, 255} }

(***************************************************************************)
(* C1                                                                      *)
(***************************************************************************)
\* C1: whenever UnmarshalText returns no error, by the short-form path or the
\* long-form path, bytes 14 and 15 of the receiver are the big-endian
\* encoding of the kind's number.
C1_SuffixAfterUnmarshal ==
    (op = "UnmarshalText" /\ err = "nil") => HasSuffix(id2, kind)

(***************************************************************************)
(* C2                                                                      *)
(***************************************************************************)
\* C2: round trip: for an identifier id1 that carries its kind's suffix,
\* UnmarshalText of MarshalText(id1), and of id1's standard 26-symbol text,
\* succeeds and yields id1.
C2_RoundTrip ==
    ( /\ op = "UnmarshalText"
      /\ HasSuffix(id1, kind)
      /\ Input \in { MarshalText(id1, kind).dst, ulidMarshalText(id1) } )
        => (err = "nil" /\ id2 = id1)

(***************************************************************************)
(* C3                                                                      *)
(***************************************************************************)
\* C3: no partial success: after UnmarshalText returns an error the receiver
\* is unchanged, or it carries its kind's suffix.
C3_NoPartialSuccess ==
    (op = "UnmarshalText" /\ err # "nil") => (id2 = id2pre \/ HasSuffix(id2, kind))

(***************************************************************************)
(* C4                                                                      *)
(***************************************************************************)
\* C4: prefix discrimination: UnmarshalText of a short-form text produced for a
\* kind with a different short identifier returns an error.
C4_PrefixDiscrimination ==
    ( /\ op = "UnmarshalText"
      /\ \E u \in KindIds :
            /\ KindShortIdent(u) # KindShortIdent(kind)
            /\ Input = MarshalText(putSuffixBytes(id1, u), u).dst )
        => err # "nil"

(***************************************************************************)
(* C5                                                                      *)
(***************************************************************************)
\* C5: the short form is byte-exact on decode: an input that holds the prefix
\* is accepted only when its length is len(short-ident)+1+24 and the prefix is
\* at offset 0.
C5_ShortFormByteExact ==
    (op = "UnmarshalText" /\ HasPrefix(Input, kind) /\ err = "nil")
        => ( /\ Len(Input) = ShortFormSize(kind)
             /\ SubSeq(Input, 1, PrefixSize(kind)) = Prefix(kind) )

(***************************************************************************)
(* C6                                                                      *)
(***************************************************************************)
\* C6: for an input without the prefix, UnmarshalText returns ErrNoPrefix when
\* the length is not 26; when the length is 26 and the text decodes as a
\* standard identifier, it returns no error if the decoded bytes 14-15 are the
\* kind's suffix and ErrInvalidSuffix otherwise.
C6_UnprefixedClassification ==
    (op = "UnmarshalText" /\ ~HasPrefix(Input, kind)) =>
        /\ Len(Input) # 26 => err = "ErrNoPrefix"
        /\ (Len(Input) = 26 /\ ULIDUnmarshalText(ZeroULID, Input).err = "nil") =>
              err = IF HasSuffix(ulidDecode(Input), kind) THEN "nil" ELSE "ErrInvalidSuffix"

\* A 26-symbol text of another kind whose last byte agrees with this kind's is
\* refused with ErrInvalidSuffix.
C6_Witness ==
    /\ op = "UnmarshalText"
    /\ ~HasPrefix(Input, kind)
    /\ Len(Input) = 26
    /\ err = "ErrInvalidSuffix"
    /\ id2[16] = KindNumber(kind) % 256
    /\ id2[15] # KindNumber(kind) \div 256

(***************************************************************************)
(* C7                                                                      *)
(***************************************************************************)
\* C7: MarshalTextTo returns ErrBufferSize and leaves the buffer unchanged when
\* the buffer's length differs from len(short-ident)+1+24 (shorter, longer or
\* nil), and returns no error when the length matches.
C7_SizeEnforcement ==
    op = "MarshalTextTo" =>
        /\ EncodedSize(kind) = ShortFormSize(kind)
        /\ vlen # ShortFormSize(kind) => (err = "ErrBufferSize" /\ arr = arrpre)
        /\ vlen = ShortFormSize(kind) => err = "nil"

\* A buffer one byte too long is refused and untouched.
C7_Witness ==
    /\ op = "MarshalTextTo"
    /\ vlen = ShortFormSize(kind) + 1
    /\ err = "ErrBufferSize"
    /\ arr = Filler(vlen)

(***************************************************************************)
(* C8                                                                      *)
(***************************************************************************)
\* C8: every identifier returned by Make or by a successful FromULID is 16
\* bytes long with byte 14 = tag >> 8 and byte 15 = tag & 0xFF, the constants
\* DomainSQL prints for octet_length, get_byte(VALUE, 14) and
\* get_byte(VALUE, 15).
C8_SuffixMirrorsDomainSQL ==
    (op \in {"Make", "FromULID"} /\ err = "nil") =>
        /\ Len(ret) = 16
        /\ HasSuffix(ret, kind)
        /\ DomainSQL(kind).octet_length = Decimal(Len(ret))
        /\ DomainSQL(kind).get_byte_14 = Decimal(ret[15])
        /\ DomainSQL(kind).get_byte_15 = Decimal(ret[16])

\* FromULID succeeded on a text that carries another suffix than the kind's.
C8_Witness ==
    /\ op = "FromULID"
    /\ err = "nil"
    /\ ~HasSuffix(ulidDecode(Input), kind)
    /\ KindNumber(kind) \div 256 # KindNumber(kind) % 256
    /\ ret = id1

(***************************************************************************)
(* C9                                                                      *)
(***************************************************************************)
\* C9: MarshalText returns len(short-ident)+1+24 bytes: the short identifier,
\* '_', then the first 24 symbols of the standard 26-symbol text of the same
\* 16 bytes; the low 2 bits of byte 14 and byte 15 do not influence it.
C9_MarshalTextFormat ==
    op = "MarshalText" =>
        /\ err = "nil"
        /\ Len(ret) = ShortFormSize(kind)
        /\ SubSeq(ret, 1, Len(KindShortIdent(kind))) = KindShortIdent(kind)
        /\ ret[Len(KindShortIdent(kind)) + 1] = 95
        /\ \A j \in 0..23 : ret[Len(KindShortIdent(kind)) + 2 + j] = StdSymbol(id1, j)
        /\ \A other \in SameHigh118(id1) : MarshalText(other, kind).dst = ret

\* MarshalText ran on an identifier whose byte 14 has bits set both above and
\* below the cut between symbol 23 and the omitted symbols.
C9_Witness ==
    /\ op = "MarshalText"
    /\ err = "nil"
    /\ id1[14] # 0
    /\ id1[15] % 4 # 0
    /\ id1[15] \div 4 # 0
    /\ id1[15] \div 4 # 63

(***************************************************************************)
(* C10                                                                     *)
(***************************************************************************)
\* C10: UnmarshalText does not write to the caller's input: every byte of the
\* backing array of v, within and beyond len(v), is unchanged after the call.
C10_InputUntouched ==
    op = "UnmarshalText" => arr = arrpre

=============================================================================
